---- MODULE Spec2Model ----
(***************************************************************************)
(* Secure link service: LinkController (generate_link / validate_link)     *)
(* over EncryptionService, HashingService and LinkRepository (Redis).     *)
(*                                                                         *)
(* Time is counted in seconds.  The Redis store is a partial function     *)
(* from short codes to stored values; a stored value carries the instant  *)
(* at which Redis evicts it (SETEX).  Byte strings, JSON texts and        *)
(* ISO-8601 strings are modelled structurally: each encoding wraps its    *)
(* argument and each decoding unwraps it or fails.                        *)
(***************************************************************************)
EXTENDS Integers, Sequences, FiniteSets, TLC

VARIABLES
    now,      \* the wall clock, datetime.utcnow() and the Redis clock
    store,    \* Redis: short code -> [text, evictAt], a partial function
    gen,      \* per request slot: the locals of a generate_link call in flight
    hist,     \* history: per code, why it is absent / what generate issued
    last,     \* the step just taken: its inputs, collaborator calls, result
    config    \* the ENCRYPTION_KEY value in the deployment's configuration

vars == <<now, store, gen, hist, last, config>>

-----------------------------------------------------------------------------
(* Bounds of the model *)

MaxTicks == 3
TickSeconds == 1800
MaxListLen == 2
MaxInputTime == 15

(* Program constants *)

ExpirationHours == 1
SecondsPerHour == 3600
MaxAttempts == 5
MaxLength == 8
DigestSize == 32

Gens == {"g1", "g2"}
SeqGens == {"g1"}
Codes == {0, 1}
Payloads == {[a |-> 1], [a |-> 2]}
IVs == {0}
Key == "k1"
Keys == {"k1", "k2"}

(* Optional values: None, or Some(x) *)
None == <<>>
Some(x) == <<x>>
IsNone(o) == Len(o) = 0

-----------------------------------------------------------------------------
(* Authorization header values.  A header string is "Bearer " ++ rest when *)
(* bearer is TRUE and rest otherwise.                                      *)

HeaderStrings ==
    { [bearer |-> FALSE, rest |-> ""],
      [bearer |-> TRUE,  rest |-> ""],
      [bearer |-> TRUE,  rest |-> "tokA"],
      [bearer |-> FALSE, rest |-> "tokA"] }

Headers == {None} \cup {Some(h) : h \in HeaderStrings}

TokOrd(t) == CASE t = "tokA" -> 1 [] t = "tokB" -> 2 [] OTHER -> 0

\* link_controller.py 55-61: token from the Authorization header
ExtractTokenBearerKept(authorization) ==
    IF IsNone(authorization) THEN None
    ELSE LET h == authorization[1] IN
         IF ~h.bearer /\ h.rest = "" THEN None
         ELSE Some((IF h.bearer THEN "Bearer " ELSE "") \o h.rest)

ExtractToken(authorization) ==
    IF IsNone(authorization) THEN None
    ELSE LET h == authorization[1] IN
         IF ~h.bearer /\ h.rest = "" THEN None      \* empty string is falsy
         ELSE Some(h.rest)                          \* [7:] or the whole header

\* link_controller.py 63: `if not token`
Falsy(token) == IsNone(token) \/ token[1] = ""

-----------------------------------------------------------------------------
(* datetime <-> ISO-8601 text, JSON fields *)

IsoFormat(t) == [t |-> "str", h |-> t \div SecondsPerHour, s |-> t % SecondsPerHour]
Garbled == [t |-> "str", h |-> -1, s |-> 0]     \* a string that is no ISO date
Null == [t |-> "null", h |-> 0, s |-> 0]        \* key missing: dict.get -> None

IsIso(x) == x.t = "str" /\ x.h >= 0 /\ x.s >= 0 /\ x.s < SecondsPerHour
FromIsoFormat(x) == x.h * SecondsPerHour + x.s
TimeDeltaHours(n) == n * SecondsPerHour

(* Python values that a parsed JSON request body consists of, each given by *)
(* its type and its content, and the JSON syntax json.dumps writes for them *)
PyScalars ==
    { [py |-> "int", v |-> 0], [py |-> "int", v |-> 1],
      [py |-> "str", v |-> "a"], [py |-> "str", v |-> "1"],
      [py |-> "bool", v |-> TRUE], [py |-> "bool", v |-> FALSE],
      [py |-> "NoneType", v |-> "None"] }

PyLists ==
    { [py |-> "list", v |-> q] :
        q \in UNION { [1 .. n -> PyScalars] : n \in 0 .. MaxListLen } }

PyDictsOver(keys, values) ==
    { [py |-> "dict", v |-> f] :
        f \in UNION { [K -> values] : K \in SUBSET keys } }

PyValues == PyScalars \cup PyLists \cup PyDictsOver({"a"}, PyScalars)

IsPy(d) == "py" \in DOMAIN d
IsJs(j) == "js" \in DOMAIN j

RECURSIVE PyToJson(_)

PyToJsonBoolAsInt(x) ==
    CASE x.py = "int"      -> [js |-> "number", v |-> x.v]
      [] x.py = "str"      -> [js |-> "string", v |-> x.v]
      [] x.py = "bool"     -> [js |-> "number", v |-> IF x.v THEN 1 ELSE 0]
      [] x.py = "NoneType" -> [js |-> "literal", v |-> "null"]
      [] x.py = "list"     -> [js |-> "array",
                               v |-> [i \in DOMAIN x.v |-> PyToJson(x.v[i])]]
      [] x.py = "dict"     -> [js |-> "object",
                               v |-> [k \in DOMAIN x.v |-> PyToJson(x.v[k])]]

\* json.dumps, by type of the value (encryption_service.py 56)
PyToJson(x) ==
    CASE x.py = "int"      -> [js |-> "number", v |-> x.v]
      [] x.py = "str"      -> [js |-> "string", v |-> x.v]
      [] x.py = "bool"     -> [js |-> "literal", v |-> IF x.v THEN "true" ELSE "false"]
      [] x.py = "NoneType" -> [js |-> "literal", v |-> "null"]
      [] x.py = "list"     -> [js |-> "array",
                               v |-> [i \in DOMAIN x.v |-> PyToJson(x.v[i])]]
      [] x.py = "dict"     -> [js |-> "object",
                               v |-> [k \in DOMAIN x.v |-> PyToJson(x.v[k])]]

RECURSIVE JsonToPy(_)

\* json.loads, by kind of the JSON syntax (encryption_service.py 77)
JsonToPy(j) ==
    CASE j.js = "number"  -> [py |-> "int", v |-> j.v]
      [] j.js = "string"  -> [py |-> "str", v |-> j.v]
      [] j.js = "literal" -> IF j.v = "null" THEN [py |-> "NoneType", v |-> "None"]
                             ELSE [py |-> "bool", v |-> (j.v = "true")]
      [] j.js = "array"   -> [py |-> "list",
                              v |-> [i \in DOMAIN j.v |-> JsonToPy(j.v[i])]]
      [] j.js = "object"  -> [py |-> "dict",
                              v |-> [k \in DOMAIN j.v |-> JsonToPy(j.v[k])]]

\* A JSON text: whether it parses, and what it says.  A value given by type
\* is written as JSON syntax; the record of a link (string fields and the
\* request's JSON payload) is written field by field as it stands.
JsonDumps(d) == [wf |-> TRUE, val |-> IF IsPy(d) THEN PyToJson(d) ELSE d]
JsonWellFormed(text) == text.wf
JsonLoads(text) == IF IsJs(text.val) THEN JsonToPy(text.val) ELSE text.val

Hex(b) == [hex |-> b]
FromHex(x) == x.hex

-----------------------------------------------------------------------------
(* EncryptionService *)

CipherKeyReloaded(configured) == configured

\* encryption_service.py 30-35: the key of the Fernet cipher, built from
\* os.getenv("ENCRYPTION_KEY") when a request constructs the service.  The
\* process environment holds the value it was started with (load_dotenv ran
\* at import); the configuration as it stands now is not read.
CipherKey(configured) == Key

FernetToken(key, data, iv, tag) ==
    [key |-> key, iv |-> iv, pt |-> JsonDumps(data), tag |-> tag]

Encrypt(data, iv) == FernetToken(CipherKey(config), data, iv, TRUE)

DecryptUnauthenticated(encrypted_data) ==
    IF ~JsonWellFormed(encrypted_data.pt) THEN None
    ELSE Some(JsonLoads(encrypted_data.pt))

Decrypt(encrypted_data) ==
    IF encrypted_data.key # CipherKey(config) \/ ~encrypted_data.tag
    THEN None                                                     \* InvalidToken
    ELSE IF ~JsonWellFormed(encrypted_data.pt) THEN None          \* ValueError
    ELSE Some(JsonLoads(encrypted_data.pt))

-----------------------------------------------------------------------------
(* HashingService: the digest of the bytes, cut to a short code.  The      *)
(* bytes are a ciphertext, optionally followed by a textual suffix.        *)

Bytes(blob, sfx) == [blob |-> blob, sfx |-> sfx]

Sha256(bytes) ==
    LET d == bytes.blob.pt.val IN
      2 * d.data.a + TokOrd(d.token) + d.encrypted_at.h + d.encrypted_at.s + bytes.blob.iv
      + (IF IsNone(bytes.sfx) THEN 0 ELSE 1 + 2 * bytes.sfx[1])

GenerateShortCode(bytes) == Sha256(bytes) % Cardinality(Codes)

(* The text of a short code.  SHA-256 is not computed: the digest of an    *)
(* input is a fixed string of DigestSize bytes determined by the input.    *)

Digest(bytes) ==
    [i \in 1 .. DigestSize |-> (Sha256(bytes) * (2 * i + 1) * 83 + 17 * i) % 256]

Take(q, n) == SubSeq(q, 1, IF n < Len(q) THEN n ELSE Len(q))

\* str.rstrip(ch)
RStrip(q, ch) ==
    LET keep == {i \in 1 .. Len(q) : \E j \in i .. Len(q) : q[j] # ch}
    IN SubSeq(q, 1, Cardinality(keep))

StandardAlphabet ==
    << "A", "B", "C", "D", "E", "F", "G", "H", "I", "J", "K", "L", "M",
       "N", "O", "P", "Q", "R", "S", "T", "U", "V", "W", "X", "Y", "Z",
       "a", "b", "c", "d", "e", "f", "g", "h", "i", "j", "k", "l", "m",
       "n", "o", "p", "q", "r", "s", "t", "u", "v", "w", "x", "y", "z",
       "0", "1", "2", "3", "4", "5", "6", "7", "8", "9", "+", "/" >>

\* The alphabet of base64.urlsafe_b64encode
UrlsafeAlphabet ==
    << "A", "B", "C", "D", "E", "F", "G", "H", "I", "J", "K", "L", "M",
       "N", "O", "P", "Q", "R", "S", "T", "U", "V", "W", "X", "Y", "Z",
       "a", "b", "c", "d", "e", "f", "g", "h", "i", "j", "k", "l", "m",
       "n", "o", "p", "q", "r", "s", "t", "u", "v", "w", "x", "y", "z",
       "0", "1", "2", "3", "4", "5", "6", "7", "8", "9", "-", "_" >>

\* The pos-th (0..3) group of six bits of the 24 bits v
Sextet(v, pos) ==
    (v \div (CASE pos = 0 -> 262144 [] pos = 1 -> 4096 [] pos = 2 -> 64
               [] OTHER -> 1)) % 64

\* base64.urlsafe_b64encode: four characters for every three bytes, the last
\* group filled with zero bits and closed with "=" for the bytes it lacks
UrlsafeB64Encode(bs) ==
    LET n == Len(bs)
        byte(i) == IF i <= n THEN bs[i] ELSE 0
    IN [j \in 1 .. 4 * ((n + 2) \div 3) |->
          LET g == (j - 1) \div 4
              pos == (j - 1) % 4
              have == IF n - 3 * g < 3 THEN n - 3 * g ELSE 3
              v == byte(3 * g + 1) * 65536 + byte(3 * g + 2) * 256 + byte(3 * g + 3)
          IN IF pos > have THEN "=" ELSE UrlsafeAlphabet[Sextet(v, pos) + 1]]

\* hashing_service.py 39-49: digest, first max_length bytes, base64 without
\* padding, first max_length characters
ShortCodeText(bytes, max_length) ==
    LET hash_bytes == Take(Digest(bytes), max_length)
        encoded == RStrip(UrlsafeB64Encode(hash_bytes), "=")
    IN Take(encoded, max_length)

-----------------------------------------------------------------------------
(* LinkRepository.  `fail` is an infrastructure failure of the Redis call. *)

\* link_repository.py 74-80: the JSON text stored under the key
StoredText(encrypted_data, metadata) ==
    JsonDumps([encrypted_data |-> Hex(encrypted_data), metadata |-> metadata])

ExpirationSecondsFinal == 2 * ExpirationHours * SecondsPerHour

\* link_repository.py 83
ExpirationSeconds == ExpirationHours * SecondsPerHour

\* What SETEX at instant t leaves in Redis: the text and the instant at which
\* the key expires.
SetExKeepTtl(st, k, seconds, text, t) ==
    [c \in DOMAIN st \cup {k} |->
       IF c = k
       THEN [text |-> text,
             evictAt |-> IF k \in DOMAIN st THEN st[k].evictAt ELSE t + seconds]
       ELSE st[c]]

SetEx(st, k, seconds, text, t) ==
    [c \in DOMAIN st \cup {k} |->
       IF c = k THEN [text |-> text, evictAt |-> t + seconds] ELSE st[c]]

Remove(st, k) == [c \in DOMAIN st \ {k} |-> st[c]]

RepoSaveIfAbsent(st, short_code, encrypted_data, metadata, t) ==
    IF short_code \in DOMAIN st THEN st
    ELSE SetEx(st, short_code, ExpirationSeconds, StoredText(encrypted_data, metadata), t)

\* link_repository.py 72-90
RepoSave(st, short_code, encrypted_data, metadata, t) ==
    SetEx(st, short_code, ExpirationSeconds, StoredText(encrypted_data, metadata), t)

RepoGet(st, short_code, fail) ==
    IF fail THEN None                                   \* except -> None
    ELSE IF short_code \notin DOMAIN st THEN None       \* `if not data`
    ELSE IF ~JsonWellFormed(st[short_code].text) THEN None
    ELSE LET parsed == JsonLoads(st[short_code].text) IN
         Some([encrypted_data |-> FromHex(parsed.encrypted_data),
               metadata |-> parsed.metadata])

RepoExists(st, short_code, fail) ==
    IF fail THEN FALSE ELSE short_code \in DOMAIN st

RepoDeleteResultOptimistic(st, short_code, fail) ==
    IF fail THEN TRUE ELSE short_code \in DOMAIN st

RepoDeleteResult(st, short_code, fail) ==
    IF fail THEN FALSE ELSE short_code \in DOMAIN st

-----------------------------------------------------------------------------
(* LinkController.validate_link *)

Response(valid, data, token, encrypted_at, error) ==
    [raised |-> FALSE, valid |-> valid, data |-> data, token |-> token,
     encrypted_at |-> encrypted_at, error |-> error]

Raised(exc) == [raised |-> TRUE, exc |-> exc]

IsExpiredInclusive(t, expires_at) == t >= expires_at
IsExpiredReversed(t, expires_at) == expires_at > t

\* link_controller.py 167: datetime.utcnow() > expires_at
IsExpired(t, expires_at) == t > expires_at

NotFoundRaises == Raised("HTTPException")

\* link_controller.py 147-150
NotFoundResponse ==
    Response(FALSE, None, None, None, Some("Link not found or expired"))

ExpiredResponseLeaking(decrypted_data) ==
    Response(FALSE, Some(decrypted_data.data), Some(decrypted_data.token), None,
             Some("Link has expired"))

\* link_controller.py 169-172: the fields left out take the schema's default
ExpiredResponse(decrypted_data) ==
    Response(FALSE, None, None, None, Some("Link has expired"))

ExpiresAtStrFromMetadata(link_data, decrypted_data) ==
    link_data.metadata.expires_at

\* link_controller.py 164: decrypted_data.get("expires_at")
ExpiresAtStr(link_data, decrypted_data) == decrypted_data.expires_at

ValidateLink(st, short_code, fail, t) ==
    LET link_data == RepoGet(st, short_code, fail) IN
    IF IsNone(link_data)
    THEN NotFoundResponse
    ELSE
    LET decrypted == Decrypt(link_data[1].encrypted_data) IN
    IF IsNone(decrypted)
    THEN Response(FALSE, None, None, None, Some("Link data is corrupted or invalid"))
    ELSE
    LET d == decrypted[1]
        expires_at_str == ExpiresAtStr(link_data[1], d)
        encrypted_at_str == d.encrypted_at
    IN
    IF expires_at_str.t = "str" /\ ~IsIso(expires_at_str)
    THEN Raised("ValueError")                          \* fromisoformat raises
    ELSE IF expires_at_str.t = "str" /\ IsExpired(t, FromIsoFormat(expires_at_str))
    THEN ExpiredResponse(d)
    ELSE IF encrypted_at_str.t = "str" /\ ~IsIso(encrypted_at_str)
    THEN Raised("ValueError")
    ELSE Response(TRUE, Some(d.data), Some(d.token),
                  IF encrypted_at_str.t = "str"
                  THEN Some(FromIsoFormat(encrypted_at_str)) ELSE None,
                  None)

ValidateStoreEffectPurging(st, short_code, res) ==
    IF ~res.raised /\ ~res.valid THEN Remove(st, short_code) ELSE st

\* What validate_link writes to the store: nothing (it only calls get).
ValidateStoreEffect(st, short_code, res) == st

-----------------------------------------------------------------------------
(* LinkController.generate_link, one step per round trip to the store *)

Idle == [pc |-> "idle", data |-> [a |-> 0], token |-> "", now |-> 0, iv |-> 0,
         short_code |-> 0, attempt |-> 0, view |-> "none"]

HttpError(status, detail) == [raised |-> TRUE, status |-> status, detail |-> detail]
Pending == [raised |-> FALSE, pending |-> TRUE]

GenerateResponseSwapped(short_code, expires_at, created_at) ==
    [raised |-> FALSE, pending |-> FALSE, short_code |-> short_code,
     expires_at |-> created_at, created_at |-> expires_at]

\* link_controller.py 126-130
GenerateResponse(short_code, expires_at, created_at) ==
    [raised |-> FALSE, pending |-> FALSE, short_code |-> short_code,
     expires_at |-> expires_at, created_at |-> created_at]

ExpiresAtUnshifted(t) == t

\* link_controller.py 72
ExpiresAt(t) == t + TimeDeltaHours(ExpirationHours)

\* link_controller.py 74-79
DataToEncrypt(data, token, t) ==
    [data |-> data, token |-> token,
     encrypted_at |-> IsoFormat(t), expires_at |-> IsoFormat(ExpiresAt(t))]

\* link_controller.py 111-114
Metadata(t) == [encrypted_at |-> IsoFormat(t), expires_at |-> IsoFormat(ExpiresAt(t))]

\* The ciphertext a call holds in encrypted_data.
BlobOf(r) == Encrypt(DataToEncrypt(r.data, r.token, r.now), r.iv)

\* link_controller.py 92 and 99: the bytes handed to generate_short_code by
\* derivation n of a call (0: the first one, n >= 1: the n-th retry), which are
\* encrypted_data, or encrypted_data + str(now.timestamp()).encode()
AttemptInput(r, n) ==
    IF n = 0 THEN Bytes(BlobOf(r), None) ELSE Bytes(BlobOf(r), Some(r.now))

PersistedBytesSuffixed(r) ==
    IF r.attempt = 0 THEN BlobOf(r) ELSE [BlobOf(r) EXCEPT !.tag = FALSE]

\* link_controller.py 117: the bytes handed to repository.save, which are
\* encrypted_data (line 99 binds the suffixed bytes to another name)
PersistedBytes(r) == BlobOf(r)

\* link_controller.py 99-100: the code derived on a collision
Rederive(r) == GenerateShortCode(AttemptInput(r, r.attempt + 1))

LoopContinuesUnbounded(exists, attempt) == exists

\* link_controller.py 97: the loop continues
LoopContinues(exists, attempt) == exists /\ attempt < MaxAttempts

\* link_controller.py 103: the loop gave up
GaveUp(attempt) == attempt >= MaxAttempts

Init ==
    /\ now = 0
    /\ store = [c \in {} |-> 0]
    /\ gen = [g \in Gens |-> Idle]
    /\ hist = [c \in Codes |-> [st |-> "never", rec |-> None]]
    /\ last = [op |-> "init"]
    /\ config = Key

\* generate_link up to the first derivation (lines 55-92).  The payload is
\* the JSON object of the request, so json.dumps in encrypt does not fail.
GenStart(g, data, authorization) ==
    /\ gen[g].pc = "idle"
    /\ LET token == ExtractToken(authorization) IN
       IF Falsy(token)
       THEN /\ last' = [op |-> "generate", g |-> g, auth |-> authorization,
                        calls |-> {},
                        res |-> HttpError(401, "Authorization token is required")]
            /\ UNCHANGED <<now, store, gen, hist, config>>
       ELSE \E iv \in IVs :
            LET r == [pc |-> "probe", data |-> data, token |-> token[1],
                      now |-> now, iv |-> iv, short_code |-> 0, attempt |-> 0,
                      view |-> "none"]
            IN
            /\ gen' = [gen EXCEPT ![g] =
                         [r EXCEPT !.short_code =
                                     GenerateShortCode(AttemptInput(r, 0))]]
            /\ last' = [op |-> "generate", g |-> g, auth |-> authorization,
                        calls |-> {"encrypt", "generate_short_code"},
                        res |-> Pending]
            /\ UNCHANGED <<now, store, hist, config>>

\* What the probe that ended the loop left the call believing: the code was
\* free, or the answer False came from a failure that hid a stored entry.
ProbeView(st, short_code) ==
    IF short_code \in DOMAIN st THEN "masked" ELSE "free"

\* One evaluation of the while condition (line 97) and what follows it:
\* the loop body (98-101), or the exit and the check of lines 103-108.
GenProbe(g) ==
    /\ gen[g].pc = "probe"
    /\ \E fail \in BOOLEAN :
       LET r == gen[g]
           ex == RepoExists(store, r.short_code, fail)
       IN
       /\ IF LoopContinues(ex, r.attempt)
          THEN /\ gen' = [gen EXCEPT ![g].short_code = Rederive(r),
                                     ![g].attempt = r.attempt + 1]
               /\ last' = [op |-> "probe", g |-> g, code |-> r.short_code,
                           fail |-> fail, ex |-> ex, attempt |-> r.attempt,
                           res |-> Pending]
          ELSE IF GaveUp(r.attempt)
          THEN /\ gen' = [gen EXCEPT ![g] = Idle]
               /\ last' = [op |-> "probe", g |-> g, code |-> r.short_code,
                           fail |-> fail, ex |-> ex, attempt |-> r.attempt,
                           res |-> HttpError(500, "Failed to generate unique short code")]
          ELSE /\ gen' = [gen EXCEPT ![g].pc = "save",
                                     ![g].view = ProbeView(store, r.short_code)]
               /\ last' = [op |-> "probe", g |-> g, code |-> r.short_code,
                           fail |-> fail, ex |-> ex, attempt |-> r.attempt,
                           res |-> Pending]
       /\ UNCHANGED <<now, store, hist, config>>

\* link_controller.py 116-130: the outcome of the call after repository.save
SaveResponseSwallowing(r, fail) ==
    GenerateResponse(r.short_code, ExpiresAt(r.now), r.now)

SaveResponse(r, fail) ==
    IF fail THEN HttpError(500, "Failed to save link")
    ELSE GenerateResponse(r.short_code, ExpiresAt(r.now), r.now)

\* The calls in flight that found the code free and now find it taken.
Overtaken(gs, g, short_code) ==
    [h \in Gens |->
       IF h # g /\ gs[h].pc = "save" /\ gs[h].short_code = short_code
                /\ gs[h].view = "free"
       THEN [gs[h] EXCEPT !.view = "raced"] ELSE gs[h]]

\* repository.save and the response (lines 110-130)
GenSave(g) ==
    /\ gen[g].pc = "save"
    /\ \E fail \in BOOLEAN :
       LET r == gen[g] IN
       /\ last' = [op |-> "save", g |-> g, code |-> r.short_code,
                   fail |-> fail, view |-> r.view,
                   data |-> r.data, token |-> r.token,
                   attempt |-> r.attempt,
                   had |-> r.short_code \in DOMAIN store,
                   over |-> hist[r.short_code].rec,
                   res |-> SaveResponse(r, fail)]
       /\ IF fail
          THEN /\ gen' = [gen EXCEPT ![g] = Idle]
               /\ UNCHANGED <<store, hist>>
          ELSE /\ gen' = [Overtaken(gen, g, r.short_code) EXCEPT ![g] = Idle]
               /\ store' = RepoSave(store, r.short_code, PersistedBytes(r),
                                    Metadata(r.now), now)
               /\ hist' = [hist EXCEPT ![r.short_code] =
                             [st |-> "live",
                              rec |-> Some([data |-> r.data, token |-> r.token,
                                            created_at |-> r.now,
                                            expires_at |-> ExpiresAt(r.now),
                                            put_at |-> now])]]
       /\ UNCHANGED <<now, config>>

Validate(k) ==
    \E fail \in BOOLEAN :
      LET res == ValidateLink(store, k, fail, now) IN
      /\ last' = [op |-> "validate", code |-> k, fail |-> fail, res |-> res]
      /\ store' = ValidateStoreEffect(store, k, res)
      /\ UNCHANGED <<now, gen, hist, config>>

RepoDeleteStoreAll(st, short_code, fail) ==
    IF fail THEN st ELSE [c \in {} |-> 0]

\* LinkRepository.delete, called by an operator of the service
RepoDeleteStore(st, short_code, fail) ==
    IF fail THEN st ELSE Remove(st, short_code)

Delete(k) ==
    \E fail \in BOOLEAN :
      LET ret == RepoDeleteResult(store, k, fail) IN
      /\ store' = RepoDeleteStore(store, k, fail)
      /\ hist' = IF k \in DOMAIN store /\ k \notin DOMAIN store'
                 THEN [hist EXCEPT ![k] = [st |-> "deleted", rec |-> None]]
                 ELSE hist
      /\ last' = [op |-> "delete", code |-> k, fail |-> fail, ret |-> ret]
      /\ UNCHANGED <<now, gen, config>>

-----------------------------------------------------------------------------
(* The environment: the clock with Redis key expiry, and other writers of  *)
(* the shared Redis database.                                              *)

AliveStrict(v, t) == t < v.evictAt

\* A key is served while the clock has not passed the instant it expires at.
Alive(v, t) == t <= v.evictAt

\* The expiry instant of a key set without a TTL: past the model's horizon.
Forever == MaxTicks * TickSeconds + 1

Tick ==
    /\ now + TickSeconds <= MaxTicks * TickSeconds
    /\ now' = now + TickSeconds
    /\ LET keep == {c \in DOMAIN store : Alive(store[c], now')} IN
       /\ store' = [c \in keep |-> store[c]]
       /\ hist' = [c \in Codes |->
                     IF c \in DOMAIN store /\ c \notin keep
                     THEN [st |-> "evicted", rec |-> hist[c].rec] ELSE hist[c]]
    /\ last' = [op |-> "tick"]
    /\ UNCHANGED <<gen, config>>

ForeignRecord(expires_at) ==
    [data |-> [a |-> 1], token |-> "tokA",
     encrypted_at |-> IsoFormat(0), expires_at |-> expires_at]

ForeignBlobs ==
    { FernetToken("k2", ForeignRecord(IsoFormat(ExpiresAt(0))), 0, TRUE),
      FernetToken(Key, ForeignRecord(IsoFormat(ExpiresAt(0))), 0, FALSE),
      FernetToken(Key, ForeignRecord(Garbled), 0, TRUE),
      FernetToken(Key, ForeignRecord(Null), 0, TRUE) }

ForeignTexts ==
    { StoredText(b, Metadata(0)) : b \in ForeignBlobs }
    \cup { [StoredText(FernetToken(Key, ForeignRecord(Null), 0, TRUE), Metadata(0))
              EXCEPT !.wf = FALSE] }

\* Another client of the database sets a key (no TTL).
ExternalWrite(k, text) ==
    /\ store' = SetEx(store, k, Forever - now, text, now)
    /\ hist' = [hist EXCEPT ![k] = [st |-> "foreign", rec |-> None]]
    /\ last' = [op |-> "env"]
    /\ UNCHANGED <<now, gen, config>>

-----------------------------------------------------------------------------
Requests ==
    \/ \E g \in Gens : GenProbe(g)
    \/ \E g \in Gens : GenSave(g)
    \/ \E k \in Codes : Validate(k)
    \/ \E k \in Codes : Delete(k)

Environment ==
    \/ Tick
    \/ \E k \in Codes, text \in ForeignTexts : ExternalWrite(k, text)

NoneInFlight == \A g \in Gens : gen[g].pc = "idle"

\* One worker: requests are served one at a time (the routes are coroutines
\* that call the synchronous controller), against a shared Redis database.
Next ==
    \/ \E g \in SeqGens, data \in Payloads, authorization \in Headers :
         NoneInFlight /\ GenStart(g, data, authorization)
    \/ Requests
    \/ Environment

Spec == Init /\ [][Next]_vars

\* Several workers: generate_link calls overlap (within one clock instant).
NextConc ==
    \/ \E g \in Gens, data \in Payloads, authorization \in Headers :
         GenStart(g, data, authorization)
    \/ Requests

SpecConc == Init /\ [][NextConc]_vars

\* An operator edits ENCRYPTION_KEY in the configuration (the .env file, the
\* deployment's environment) while the process runs.
ConfigChange(k) ==
    /\ k # config
    /\ config' = k
    /\ last' = [op |-> "config"]
    /\ UNCHANGED <<now, store, gen, hist>>

\* One worker serving requests while the configuration is edited.
NextKey ==
    \/ \E g \in SeqGens, data \in Payloads, authorization \in Headers :
         NoneInFlight /\ GenStart(g, data, authorization)
    \/ Requests
    \/ \E k \in Keys : ConfigChange(k)

SpecKey == Init /\ [][NextKey]_vars

\* One worker and a store that other clients fill; a call that has started
\* runs on: the controller is straight-line code around the store calls.
NextLive ==
    \/ \E g \in SeqGens, data \in Payloads, authorization \in Headers :
         NoneInFlight /\ GenStart(g, data, authorization)
    \/ Requests
    \/ \E k \in Codes, text \in ForeignTexts : ExternalWrite(k, text)

SpecLive ==
    /\ Init /\ [][NextLive]_vars
    /\ \A g \in Gens : WF_vars(GenProbe(g)) /\ WF_vars(GenSave(g))

-----------------------------------------------------------------------------
(* EncryptionService on its own: encrypt a record, then decrypt the        *)
(* ciphertext or a damaged copy of it.                                     *)

\* The records handed to encrypt: empty, a payload, or a payload and a
\* credential
CodecRecords ==
    { [py |-> "dict", v |-> f] :
        f \in UNION { [K -> PyValues] : K \in SUBSET {"data"} }
              \cup { [data |-> d, token |-> t] :
                       d \in PyValues,
                       t \in {[py |-> "str", v |-> "a"], [py |-> "str", v |-> "1"]} } }

Damages == {"none", "key", "tag", "text"}

\* A blob as it reaches decrypt: intact, made under another key, with a
\* signature that does not verify, or carrying a plaintext that is no JSON.
Damaged(blob, damage) ==
    CASE damage = "none" -> blob
      [] damage = "key"  -> [blob EXCEPT !.key = "k2"]
      [] damage = "tag"  -> [blob EXCEPT !.tag = FALSE]
      [] damage = "text" -> [blob EXCEPT !.pt.wf = FALSE]

CodecEncrypt(x, iv) ==
    /\ last' = [op |-> "encrypt", x |-> x, blob |-> Encrypt(x, iv)]
    /\ UNCHANGED <<now, store, gen, hist, config>>

CodecDecrypt(damage) ==
    /\ last.op = "encrypt"
    /\ LET blob == Damaged(last.blob, damage) IN
       last' = [op |-> "decrypt", x |-> last.x, damage |-> damage,
                blob |-> blob, out |-> Decrypt(blob)]
    /\ UNCHANGED <<now, store, gen, hist, config>>

NextCodec ==
    \/ \E x \in CodecRecords, iv \in IVs : CodecEncrypt(x, iv)
    \/ \E damage \in Damages : CodecDecrypt(damage)

SpecCodec == Init /\ [][NextCodec]_vars

-----------------------------------------------------------------------------
(* HashingService on its own: derive the text of the code of some bytes.   *)

\* Ciphertexts of link records, alone or followed by the timestamp suffix
DeriveInputs ==
    { Bytes(Encrypt(DataToEncrypt(d, "tokA", t), iv), IF sfx THEN Some(t) ELSE None) :
        d \in Payloads, t \in 0 .. MaxInputTime, iv \in IVs, sfx \in BOOLEAN }

Derive(bytes, max_length) ==
    /\ last' = [op |-> "derive", input |-> bytes, max_length |-> max_length,
                code |-> ShortCodeText(bytes, max_length)]
    /\ UNCHANGED <<now, store, gen, hist, config>>

NextDerive ==
    \E bytes \in DeriveInputs, max_length \in 1 .. MaxLength : Derive(bytes, max_length)

SpecDerive == Init /\ [][NextDerive]_vars

-----------------------------------------------------------------------------
(* Properties *)

\* The ciphertext stored under k (the stored text is well-formed JSON).
C_Blob(k) == store[k].text.val.encrypted_data.hex
C_Readable(k) == k \in DOMAIN store /\ store[k].text.wf
C_Authentic(b) == b.key = Key /\ b.tag /\ b.pt.wf
C_Failure(error) ==
    [raised |-> FALSE, valid |-> FALSE, data |-> None, token |-> None,
     encrypted_at |-> None, error |-> Some(error)]
C_NoCredential(auth) == IsNone(auth) \/ auth[1].rest = ""

\* C1: a validate of a code that generate issued, made while now <= expires_at
\* with no delete, overwrite or store failure in between, returns valid=true
\* with the payload, the credential and the created_at of that generate.
C1_ValidateReturnsIssued ==
    (/\ last.op = "validate" /\ ~last.fail
     /\ hist[last.code].st \in {"live", "evicted"}
     /\ now <= hist[last.code].rec[1].expires_at)
    => last.res = [raised |-> FALSE, valid |-> TRUE,
                   data |-> Some(hist[last.code].rec[1].data),
                   token |-> Some(hist[last.code].rec[1].token),
                   encrypted_at |-> Some(hist[last.code].rec[1].created_at),
                   error |-> None]

C1_Witness ==
    /\ last.op = "validate" /\ ~last.fail
    /\ hist[last.code].st = "live"
    /\ now = hist[last.code].rec[1].expires_at
    /\ hist[last.code].rec[1].data = [a |-> 2]
    /\ last.res.valid

\* C2: when the entry is present and decrypts but now > its expires_at,
\* validate returns valid=false with the 'expired' error.
C2_ExpiredRejected ==
    (/\ last.op = "validate" /\ ~last.fail
     /\ C_Readable(last.code)
     /\ C_Authentic(C_Blob(last.code))
     /\ IsIso(C_Blob(last.code).pt.val.expires_at)
     /\ now > FromIsoFormat(C_Blob(last.code).pt.val.expires_at))
    => last.res = C_Failure("Link has expired")

C2_Witness ==
    /\ last.op = "validate" /\ ~last.fail
    /\ hist[last.code].st = "live"
    /\ last.code \in DOMAIN store
    /\ now > hist[last.code].rec[1].expires_at
    /\ last.res.error = Some("Link has expired")

\* C3: generate with an absent or empty credential fails with 401 and makes
\* no call to the codec, the deriver or the store.
C3_MissingCredential ==
    [][ (last'.op = "generate" /\ C_NoCredential(last'.auth))
        => (/\ last'.res.raised /\ last'.res.status = 401
            /\ last'.calls = {}
            /\ store' = store /\ gen' = gen) ]_vars

C3_Witness ==
    /\ last.op = "generate"
    /\ last.auth = Some([bearer |-> TRUE, rest |-> ""])
    /\ last.res.raised /\ last.res.status = 401
    /\ DOMAIN store # {}

\* C4: validate of a code with no entry returns valid=false 'not found or
\* expired', the same whether the code was never generated, evicted or deleted.
C4_AbsentNotFound ==
    \A why \in {"never", "evicted", "deleted"} :
      (/\ last.op = "validate"
       /\ last.code \notin DOMAIN store
       /\ hist[last.code].st = why)
      => last.res = C_Failure("Link not found or expired")

C4_Witness ==
    /\ last.op = "validate" /\ ~last.fail
    /\ last.code \notin DOMAIN store
    /\ hist[last.code].st = "evicted"
    /\ \E k \in Codes : hist[k].st = "deleted"
    /\ last.res = C_Failure("Link not found or expired")

\* C5: when the stored ciphertext fails to decrypt, validate returns
\* valid=false 'corrupted or invalid' with no data and no credential.
C5_UndecryptableRejected ==
    (/\ last.op = "validate" /\ ~last.fail
     /\ C_Readable(last.code)
     /\ ~C_Authentic(C_Blob(last.code)))
    => last.res = C_Failure("Link data is corrupted or invalid")

C5_Witness ==
    /\ last.op = "validate" /\ ~last.fail
    /\ C_Readable(last.code)
    /\ C_Blob(last.code).key = Key /\ ~C_Blob(last.code).tag
    /\ last.res.error = Some("Link data is corrupted or invalid")

\* C6: validate never raises, whatever the store holds under the code.
C6_ValidateNeverRaises ==
    last.op = "validate" => ~last.res.raised

\* C7: a probe answered by the store with no collision after N collisions,
\* 1 <= N <= 5, lets generate go on to persist under the probed code; generate
\* gives up only on a collision of the code derived after the fifth retry.
C7_RetryUntilFree ==
    /\ (last.op = "probe" /\ ~last.fail /\ ~last.ex /\ last.attempt \in 1 .. MaxAttempts)
         => (/\ ~last.res.raised
             /\ gen[last.g].pc = "save"
             /\ gen[last.g].short_code = last.code)
    /\ (last.op = "probe" /\ ~last.fail /\ last.res.raised)
         => (last.ex /\ last.attempt = MaxAttempts)

\* C8: no step of generate or validate changes an entry that generate wrote,
\* while requests do not overlap.
C8_EntryImmutable ==
    [][ last'.op \in {"generate", "probe", "save", "validate"}
        => \A k \in Codes :
             hist[k].st = "live" => (k \in DOMAIN store' /\ store'[k] = store[k]) ]_vars

\* C9: validate leaves the store and the clock as they were, whatever it returns.
C9_ValidateReadOnly ==
    [][ last'.op = "validate" => (store' = store /\ now' = now) ]_vars

C9_Witness ==
    /\ last.op = "validate"
    /\ last.code \in DOMAIN store
    /\ ~last.res.raised
    /\ last.res.error = Some("Link has expired")

\* C10: a failed get gives 'not found', a failed exists gives false, a failed
\* delete gives false, and the store is unchanged.
C10_StoreFailureIsNotFound ==
    [][ /\ (last'.op = "validate" /\ last'.fail)
             => (last'.res = C_Failure("Link not found or expired") /\ store' = store)
        /\ (last'.op = "probe" /\ last'.fail)
             => (last'.ex = FALSE /\ store' = store)
        /\ (last'.op = "delete" /\ last'.fail)
             => (last'.ret = FALSE /\ store' = store) ]_vars

C10_Witness ==
    /\ last.op = "delete" /\ last.fail
    /\ last.code \in DOMAIN store
    /\ hist[last.code].st = "live"
    /\ last.ret = FALSE

\* C11: when the store write of generate fails, generate ends with the 500
\* persistence error, its result carries no short code, and the store is as
\* it was before the call's write.
C11_SaveFailureSurfaced ==
    [][ (last'.op = "save" /\ last'.fail)
        => (/\ last'.res.raised /\ last'.res.status = 500
            /\ last'.res.detail = "Failed to save link"
            /\ "short_code" \notin DOMAIN last'.res
            /\ store' = store) ]_vars

C11_Witness ==
    /\ last.op = "save" /\ last.fail
    /\ last.res.raised /\ last.res.status = 500
    /\ last.code \notin DOMAIN store
    /\ DOMAIN store # {}

\* C12: after a successful generate the encrypted record has expires_at equal
\* to created_at plus the configured hours, and the stored metadata and the
\* response carry the same two instants as the encrypted record.
C12_TimestampsAgree ==
    (last.op = "save" /\ ~last.fail)
    => LET entry == RepoGet(store, last.code, FALSE)[1]
           rec == Decrypt(entry.encrypted_data)[1]
       IN
       /\ IsIso(rec.encrypted_at) /\ IsIso(rec.expires_at)
       /\ FromIsoFormat(rec.expires_at)
            = FromIsoFormat(rec.encrypted_at) + ExpirationHours * SecondsPerHour
       /\ entry.metadata.encrypted_at = rec.encrypted_at
       /\ entry.metadata.expires_at = rec.expires_at
       /\ last.res.created_at = FromIsoFormat(rec.encrypted_at)
       /\ last.res.expires_at = FromIsoFormat(rec.expires_at)

C12_Witness ==
    /\ last.op = "save" /\ ~last.fail
    /\ last.res.created_at = TickSeconds
    /\ last.res.expires_at = TickSeconds + ExpirationHours * SecondsPerHour
    /\ now > last.res.created_at

\* C13: once the TTL given at the put (the configured hours, in seconds) has
\* elapsed, an entry that generate stored and that nobody deleted or rewrote
\* is no longer in the store, removed by the store itself, and a validate of
\* its code returns 'not found or expired'.
C13_EvictedAfterTTL ==
    \A k \in Codes :
      (/\ ~IsNone(hist[k].rec)
       /\ now > hist[k].rec[1].put_at + ExpirationHours * SecondsPerHour)
      => (/\ k \notin DOMAIN store
          /\ hist[k].st = "evicted"
          /\ (last.op = "validate" /\ last.code = k)
               => last.res = C_Failure("Link not found or expired"))

C13_Witness ==
    /\ last.op = "validate" /\ ~last.fail
    /\ hist[last.code].st = "evicted"
    /\ now > hist[last.code].rec[1].put_at + ExpirationHours * SecondsPerHour
    /\ last.code \notin DOMAIN store
    /\ last.res.error = Some("Link not found or expired")

\* C14: delete(k) returns true exactly when an entry was stored under k and
\* the call removed it; then exists(k) is false and get(k) is absent; the
\* entries under every other code are unchanged; a delete of an absent code
\* returns false and changes nothing.
C14_DeleteRemovesOne ==
    [][ last'.op = "delete"
        => LET k == last'.code IN
           /\ last'.ret = (k \in DOMAIN store /\ k \notin DOMAIN store')
           /\ last'.ret => (/\ ~RepoExists(store', k, FALSE)
                            /\ IsNone(RepoGet(store', k, FALSE)))
           /\ \A c \in Codes \ {k} :
                /\ (c \in DOMAIN store') = (c \in DOMAIN store)
                /\ c \in DOMAIN store => store'[c] = store[c]
           /\ k \notin DOMAIN store => (~last'.ret /\ store' = store) ]_vars

C14_Witness ==
    /\ last.op = "delete" /\ ~last.fail
    /\ last.ret = TRUE
    /\ last.code \notin DOMAIN store
    /\ \E c \in Codes : c \in DOMAIN store /\ hist[c].st = "live"

\* C15: decrypt of what encrypt made of a record returns that record, with
\* its keys, nesting and scalar types; decrypt of a blob that is not a valid
\* ciphertext under the key returns None.
C15_CodecRoundTrip ==
    last.op = "decrypt"
    => /\ last.damage = "none" => last.out = Some(last.x)
       /\ last.damage # "none" => last.out = None

C15_Witness ==
    /\ last.op = "decrypt" /\ last.damage = "none"
    /\ "data" \in DOMAIN last.x.v /\ "token" \in DOMAIN last.x.v
    /\ last.x.v.data.py = "list" /\ Len(last.x.v.data.v) = MaxListLen
    /\ last.x.v.data.v[1] = [py |-> "bool", v |-> TRUE]
    /\ last.x.v.data.v[2] = [py |-> "int", v |-> 1]
    /\ last.out = Some(last.x)

\* The characters a short code may consist of: ASCII letters, digits, - and _
C_CodeChars ==
    { "A", "B", "C", "D", "E", "F", "G", "H", "I", "J", "K", "L", "M",
      "N", "O", "P", "Q", "R", "S", "T", "U", "V", "W", "X", "Y", "Z",
      "a", "b", "c", "d", "e", "f", "g", "h", "i", "j", "k", "l", "m",
      "n", "o", "p", "q", "r", "s", "t", "u", "v", "w", "x", "y", "z",
      "0", "1", "2", "3", "4", "5", "6", "7", "8", "9", "-", "_" }

\* C16: the code derived from some bytes, a function of those bytes and of
\* max_length alone, has at most max_length characters, each an ASCII letter,
\* a digit, - or _, and none is the padding character.
C16_CodeShape ==
    last.op = "derive"
    => /\ Len(last.code) <= last.max_length
       /\ \A i \in 1 .. Len(last.code) :
            last.code[i] \in C_CodeChars /\ last.code[i] # "="

C16_Witness ==
    /\ last.op = "derive"
    /\ last.max_length = MaxLength
    /\ Len(last.code) = MaxLength
    /\ last.code = << "T", "Y", "a", "_", "-", "D", "F", "q" >>
    /\ ~IsNone(last.input.sfx)

\* C17: when a generate call found its code free and another call has since
\* stored an entry under that code (and returned the code), its put succeeds
\* too and it returns the same short code; the store then holds the later
\* writer's entry in place of the earlier one, and validate of the code returns
\* the later writer's payload and credential.
C17_LastWriterWins ==
    (last.op = "save" /\ ~last.fail /\ last.view = "raced" /\ ~IsNone(last.over))
    => /\ ~last.res.raised /\ last.res.short_code = last.code
       /\ C_Readable(last.code)
       /\ Decrypt(C_Blob(last.code))
            = Some(DataToEncrypt(last.data, last.token, last.res.created_at))
       /\ ValidateLink(store, last.code, FALSE, now)
            = Response(TRUE, Some(last.data), Some(last.token),
                       Some(last.res.created_at), None)

C17_Witness ==
    /\ last.op = "save" /\ ~last.fail /\ last.view = "raced"
    /\ ~IsNone(last.over)
    /\ last.over[1].data # last.data
    /\ ValidateLink(store, last.code, FALSE, now).data = Some(last.data)

\* C18: every retry of a generate call hands the deriver bytes that differ
\* from those of each earlier derivation of the same call.
C18_RetryInputsDiffer ==
    [][ (last'.op = "probe"
         /\ gen'[last'.g].attempt = gen[last'.g].attempt + 1)
        => \A n \in 0 .. gen[last'.g].attempt :
             AttemptInput(gen[last'.g], gen[last'.g].attempt + 1)
               # AttemptInput(gen[last'.g], n) ]_vars

\* C19: a generate call whose exists probe failed while an entry was stored
\* under the derived code does not overwrite that entry (here: an entry that
\* an earlier generate wrote and that is still stored at the put).
C19_ExistsFailSafe ==
    [][ (/\ last'.op = "save" /\ ~last'.fail
         /\ last'.view = "masked"
         /\ hist[last'.code].st = "live"
         /\ last'.code \in DOMAIN store)
        => store'[last'.code] = store[last'.code] ]_vars

\* C20 as stated: validate never returns the 'expired' outcome for an entry
\* that generate wrote.
C20_ExpiryCheckDead ==
    (last.op = "validate" /\ hist[last.code].st = "live")
    => last.res # C_Failure("Link has expired")

\* C20, amended: validate returns 'expired' for an entry that generate wrote
\* only if the put happened after created_at was taken, and only at an instant
\* after expires_at and no later than the put plus the TTL.
C20_ExpiredOnlyAfterLatePut ==
    (/\ last.op = "validate"
     /\ hist[last.code].st = "live"
     /\ last.res = C_Failure("Link has expired"))
    => LET rec == hist[last.code].rec[1] IN
       /\ rec.put_at > rec.created_at
       /\ now > rec.created_at + ExpirationHours * SecondsPerHour
       /\ now <= rec.put_at + ExpirationHours * SecondsPerHour

C20_Witness ==
    /\ last.op = "validate" /\ ~last.fail
    /\ hist[last.code].st = "live"
    /\ last.res = C_Failure("Link has expired")
    /\ hist[last.code].rec[1].put_at = hist[last.code].rec[1].created_at + TickSeconds

C_LoopBounded ==
    /\ \A g \in Gens : gen[g].attempt <= MaxAttempts
    /\ last.op = "probe"
         => /\ last.attempt + 1 <= MaxAttempts + 1
            /\ last.attempt = MaxAttempts => gen[last.g].pc # "probe"
            /\ gen[last.g].pc # "probe"
                 => \/ gen[last.g].pc = "save" /\ ~last.res.raised
                    \/ /\ gen[last.g].pc = "idle"
                       /\ last.res = HttpError(500, "Failed to generate unique short code")

\* C22: generate terminates; its loop makes at most MaxAttempts re-derivations
\* and MaxAttempts + 1 exists probes, whatever the store answers, and then
\* generate goes on to the put or fails with the exhaustion error.
C22_GenerateTerminates ==
    /\ []C_LoopBounded
    /\ \A g \in SeqGens : (gen[g].pc # "idle") ~> (gen[g].pc = "idle")

C22_Witness ==
    /\ last.op = "probe" /\ ~last.fail
    /\ last.attempt = MaxAttempts
    /\ last.ex
    /\ gen[last.g].pc = "idle"
    /\ last.res.raised

\* C23: a put under a code that holds an entry succeeds (the repository
\* refuses no code) and leaves, in place of that entry, the new ciphertext
\* and the new metadata, expiring a full TTL after the instant of this put.
C23_PutReplaces ==
    (last.op = "save" /\ ~last.fail /\ last.had)
    => /\ ~last.res.raised
       /\ last.code \in DOMAIN store
       /\ \E iv \in IVs :
            store[last.code].text
              = StoredText(Encrypt(DataToEncrypt(last.data, last.token,
                                                 last.res.created_at), iv),
                           Metadata(last.res.created_at))
       /\ store[last.code].evictAt = now + ExpirationHours * SecondsPerHour

C23_Witness ==
    /\ last.op = "save" /\ ~last.fail /\ last.had
    /\ ~IsNone(last.over)
    /\ last.over[1].data # last.data
    /\ last.over[1].put_at < now
    /\ store[last.code].evictAt = now + ExpirationHours * SecondsPerHour

\* C24: an entry that generate wrote is kept by the store at least until the
\* expires_at of its record; while it has been neither deleted nor
\* overwritten and the store answers, validate returns valid=true at every
\* instant up to and including expires_at.
C24_ResolvableForLifetime ==
    \A k \in Codes :
      /\ hist[k].st = "live"
           => /\ k \in DOMAIN store
              /\ store[k].evictAt >= hist[k].rec[1].expires_at
              /\ now <= hist[k].rec[1].expires_at
                   => LET res == ValidateLink(store, k, FALSE, now) IN
                      ~res.raised /\ res.valid
      /\ hist[k].st = "evicted" => now > hist[k].rec[1].expires_at

C24_Witness ==
    /\ last.op = "validate" /\ ~last.fail
    /\ hist[last.code].st = "live"
    /\ now = hist[last.code].rec[1].expires_at
    /\ store[last.code].evictAt = now
    /\ ~last.res.raised /\ last.res.valid

\* C25: a validate response with valid=false carries no data, no token and no
\* encrypted_at, and one with valid=true carries no error; this holds for the
\* response just returned and for the response validate would give for any
\* code, with or without a store failure.
C25_FailureDisclosesNothing ==
    /\ \A k \in Codes, fail \in BOOLEAN :
         LET res == ValidateLink(store, k, fail, now) IN
         ~res.raised
           => /\ ~res.valid => /\ IsNone(res.data) /\ IsNone(res.token)
                               /\ IsNone(res.encrypted_at)
              /\ res.valid => IsNone(res.error)
    /\ (last.op = "validate" /\ ~last.res.raised /\ ~last.res.valid)
         => /\ IsNone(last.res.data) /\ IsNone(last.res.token)
            /\ IsNone(last.res.encrypted_at)

C25_Witness ==
    /\ last.op = "validate" /\ ~last.fail
    /\ C_Readable(last.code)
    /\ ~IsNone(Decrypt(C_Blob(last.code)))
    /\ ~last.res.raised /\ ~last.res.valid
    /\ IsNone(last.res.data) /\ IsNone(last.res.token)

\* The values the plaintext metadata of a stored entry may be given, and the
\* store with the metadata under k replaced (same ciphertext).
C_Metadatas ==
    { [encrypted_at |-> e, expires_at |-> x] :
        e \in {IsoFormat(0), Garbled, Null}, x \in {IsoFormat(0), Garbled, Null} }
C_WithMetadata(st, k, m) == [st EXCEPT ![k].text.val.metadata = m]

\* C26: for every stored entry, validate gives the same result whatever the
\* values of encrypted_at and expires_at in the entry's plaintext metadata,
\* the ciphertext and the instant being the same.
C26_MetadataIgnored ==
    \A k \in DOMAIN store, m \in C_Metadatas :
      ValidateLink(C_WithMetadata(store, k, m), k, FALSE, now)
        = ValidateLink(store, k, FALSE, now)

C26_Witness ==
    /\ last.op = "validate" /\ ~last.fail
    /\ C_Readable(last.code)
    /\ now > FromIsoFormat(store[last.code].text.val.metadata.expires_at)
    /\ ~last.res.raised /\ last.res.valid
    /\ \E m \in C_Metadatas :
         /\ m # store[last.code].text.val.metadata
         /\ ValidateLink(C_WithMetadata(store, last.code, m), last.code, FALSE, now)
              = last.res

\* C27: when a generate call that re-derived its code at least once puts its
\* entry, the ciphertext stored under the returned code is the blob encrypt
\* returned for the call's record; it decrypts to that record, and validate
\* of the code, made before expires_at has passed, returns the call's payload
\* and credential.
C27_RederivedKeepsBlob ==
    (last.op = "save" /\ ~last.fail /\ last.attempt >= 1)
    => LET rec == DataToEncrypt(last.data, last.token, last.res.created_at) IN
       /\ C_Readable(last.res.short_code)
       /\ \E iv \in IVs : C_Blob(last.res.short_code) = Encrypt(rec, iv)
       /\ Decrypt(C_Blob(last.res.short_code)) = Some(rec)
       /\ now <= last.res.expires_at
            => LET res == ValidateLink(store, last.res.short_code, FALSE, now) IN
               /\ ~res.raised /\ res.valid
               /\ res.data = Some(last.data) /\ res.token = Some(last.token)

C27_Witness ==
    /\ last.op = "save" /\ ~last.fail /\ last.attempt >= 1
    /\ last.data = [a |-> 2]
    /\ now <= last.res.expires_at
    /\ ValidateLink(store, last.res.short_code, FALSE, now).data = Some(last.data)

====
